---- MODULE Spec2Model ----
(***************************************************************************)
(* NodeMaterialRuntimeHelper (Materials/Node/Replay) as a state machine:   *)
(* the uniform ledger, the per-draw bind callback and the helper's         *)
(* lifecycle (construction, build-complete handler, dispose).              *)
(***************************************************************************)
EXTENDS Integers, Sequences, FiniteSets, TLC

(***************************************************************************)
(* Bounds of the model.                                                    *)
(***************************************************************************)
\* longest list of input blocks the material hands to the build handler
MaxBlocks == 2
\* the counter of build-complete signals stops counting here
MaxSignals == 2
\* the counter of consecutive dispose() calls stops counting here
MaxDisposes == 2
\* most writes an external caller makes through the `ledger` getter
MaxEdits == 2
\* most FluidRenderer objects a scene creates
MaxFluidRenderers == 2

(***************************************************************************)
(* JavaScript values.  A value is a record [type, className, data]; the    *)
(* data of a number, vector or colour is a sequence of rationals <<n, d>>. *)
(***************************************************************************)
RECURSIVE GCD(_, _)
GCD(a, b) == IF b = 0 THEN a ELSE GCD(b, a % b)

\* the float n / d, in lowest terms (d > 0)
Rat(n, d) ==
    LET a == IF n < 0 THEN -n ELSE n
        g == GCD(a, d)
    IN  <<n \div g, d \div g>>

Whole(n) == Rat(n, 1)

Undefined == [type |-> "undefined", className |-> "", data |-> <<>>]
Null == [type |-> "null", className |-> "", data |-> <<>>]
Number(n, d) == [type |-> "number", className |-> "", data |-> <<Rat(n, d)>>]
Object(cls, comps) == [type |-> "object", className |-> cls, data |-> comps]

\* JavaScript truthiness, as tested by `if (inputBlock.value)`, `if (value)`
Truthy(v) ==
    \/ v.type = "object"
    \/ v.type = "number" /\ v.data[1][1] # 0

\* only the math classes carry getClassName(); calling it on a number throws
HasGetClassName(v) == v.type = "object"

(***************************************************************************)
(* 4x4 matrices, row major, as 16 integers.                                *)
(***************************************************************************)
Identity == <<1, 0, 0, 0,  0, 1, 0, 0,  0, 0, 1, 0,  0, 0, 0, 1>>
Translation == <<1, 0, 0, 0,  0, 1, 0, 0,  0, 0, 1, 0,  2, 3, 4, 1>>
Scaling == <<2, 0, 0, 0,  0, 3, 0, 0,  0, 0, 1, 0,  0, 0, 0, 1>>
Shear == <<1, 1, 0, 0,  0, 1, 0, 0,  0, 0, 1, 1,  0, 0, 0, 1>>

\* row r, column c (from 0) of the product a x b
Cell(a, b, r, c) ==
    a[4 * r + 1] * b[c + 1] + a[4 * r + 2] * b[c + 5]
      + a[4 * r + 3] * b[c + 9] + a[4 * r + 4] * b[c + 13]

\* a.multiplyToRef(b, result): the contents written to result
Multiply(a, b) ==
    <<Cell(a, b, 0, 0), Cell(a, b, 0, 1), Cell(a, b, 0, 2), Cell(a, b, 0, 3),
      Cell(a, b, 1, 0), Cell(a, b, 1, 1), Cell(a, b, 1, 2), Cell(a, b, 1, 3),
      Cell(a, b, 2, 0), Cell(a, b, 2, 1), Cell(a, b, 2, 2), Cell(a, b, 2, 3),
      Cell(a, b, 3, 0), Cell(a, b, 3, 1), Cell(a, b, 3, 2), Cell(a, b, 3, 3)>>

(***************************************************************************)
(* What the graph hands over: input blocks.                                *)
(***************************************************************************)
\* NodeMaterialSystemValues the bind callback has a case for
HandledSystemValues ==
    {"World", "WorldView", "WorldViewProjection", "View", "Projection",
     "ViewProjection", "CameraPosition", "FogColor", "DeltaTime",
     "CameraParameters"}

\* MaterialAlpha is a member of the enum the bind callback has no case for
SystemValues == HandledSystemValues \cup {"MaterialAlpha"}

\* systemValueType of an entry that has none
NoSystemValue == "undefined"

Vector3 == Object("Vector3", <<Whole(1), Whole(2), Whole(3)>>)
Vector4 == Object("Vector4", <<Whole(1), Whole(2), Whole(3), Whole(4)>>)
Color3 == Object("Color3", <<Whole(0), Rat(1, 4), Whole(1)>>)
Color4 == Object("Color4", <<Whole(1), Whole(0), Whole(0), Rat(1, 2)>>)
MatrixValue == Object("Matrix", <<>>)

\* values an input block can carry: none, floats, vectors, colours, a matrix
StaticValues ==
    {Undefined, Number(0, 1), Number(5, 2), Vector3, Vector4, Color3, Color4,
     MatrixValue}

Names == {"a", "b"}

\* the names of the uniforms that come from a system value
SystemNames == {"a"}

\* the names of the uniforms that come from a static value
StaticNames == {"b"}

InputBlock(name, uniform, kind, v) ==
    [associatedVariableName |-> name, isUniform |-> uniform,
     isSystemValue |-> kind # NoSystemValue, systemValue |-> kind, value |-> v]

\* every input block of the model: attributes, system values, static values
InputBlocks ==
    {InputBlock(n, FALSE, NoSystemValue, Vector3) : n \in SystemNames}
      \cup {InputBlock(n, TRUE, k, Undefined) : n \in SystemNames, k \in SystemValues}
      \cup {InputBlock(n, TRUE, "WorldView", Undefined) : n \in StaticNames}
      \cup {InputBlock(n, TRUE, NoSystemValue, v) : n \in StaticNames, v \in StaticValues}

\* the input blocks of the lifecycle specification
FewInputBlocks ==
    {InputBlock("a", FALSE, NoSystemValue, Vector3),
     InputBlock("a", TRUE, "WorldViewProjection", Undefined),
     InputBlock("b", TRUE, "CameraParameters", Undefined),
     InputBlock("b", TRUE, NoSystemValue, Color4),
     InputBlock("b", TRUE, NoSystemValue, Undefined)}

\* the lists of at most MaxBlocks blocks of a universe
BlockLists(universe) ==
    UNION {[1..n -> universe] : n \in 0..MaxBlocks}

(***************************************************************************)
(* The uniform ledger: an object keyed by uniform name, kept as the        *)
(* sequence of its [key, entry] properties in insertion order, which is    *)
(* the order `for (const key in ...)` visits them.                         *)
(***************************************************************************)
Entry(kind, v) == [systemValueType |-> kind, directValue |-> v]

EmptyEntry == Entry(NoSystemValue, Undefined)

Keys(ledger) == {ledger[i].key : i \in 1..Len(ledger)}

Range(seq) == {seq[i] : i \in 1..Len(seq)}

\* ledger[key] = entry: replaces the property in place, or appends it
SetProperty(ledger, key, entry) ==
    IF key \in Keys(ledger)
    THEN [i \in 1..Len(ledger) |->
            IF ledger[i].key = key THEN [key |-> key, entry |-> entry]
            ELSE ledger[i]]
    ELSE Append(ledger, [key |-> key, entry |-> entry])

\* ledger[key], for a key of the ledger
GetProperty(ledger, key) ==
    ledger[CHOOSE i \in 1..Len(ledger) : ledger[i].key = key].entry

(***************************************************************************)
(* Ledger construction: the loop over getInputBlocks() of the build        *)
(* handler.  It fills the uniform-name list and the ledger together.       *)
(***************************************************************************)
\* the entry the loop body creates for one uniform input block
EntryOfBlock(inputBlock) ==
    IF inputBlock.isSystemValue
    THEN Entry(inputBlock.systemValue, Undefined)
    ELSE IF Truthy(inputBlock.value)
         THEN Entry(NoSystemValue, inputBlock.value)
         ELSE EmptyEntry

\* an iteration that lists the name of every block and tests isUniform
\* for the ledger only
VisitInputBlockListingAll(acc, inputBlock) ==
    [uniforms |-> Append(acc.uniforms, inputBlock.associatedVariableName),
     ledger |-> IF inputBlock.isUniform
                THEN SetProperty(acc.ledger, inputBlock.associatedVariableName,
                                 EntryOfBlock(inputBlock))
                ELSE acc.ledger]

\* one iteration of the loop, on the pair [uniforms, ledger]
VisitInputBlock(acc, inputBlock) ==
    IF inputBlock.isUniform
    THEN [uniforms |-> Append(acc.uniforms, inputBlock.associatedVariableName),
          ledger |-> SetProperty(acc.ledger, inputBlock.associatedVariableName,
                                 EntryOfBlock(inputBlock))]
    ELSE acc

RECURSIVE VisitInputBlocks(_, _)
VisitInputBlocks(acc, blocks) ==
    IF blocks = <<>> THEN acc
    ELSE VisitInputBlocks(VisitInputBlock(acc, Head(blocks)), Tail(blocks))

(***************************************************************************)
(* What a draw hands to the bind callback: the mesh and its scene.         *)
(***************************************************************************)
NoCamera == [present |-> FALSE, minZ |-> Whole(0), maxZ |-> Whole(0)]
Camera(near, far) == [present |-> TRUE, minZ |-> near, maxZ |-> far]

\* a draw: the mesh's world matrix and the state of the scene it is drawn in
Draws ==
    {[world |-> Identity, view |-> Scaling, projection |-> Shear,
      transform |-> Translation, fogColor |-> <<Whole(1), Whole(0), Rat(1, 2)>>,
      deltaTime |-> 16, activeCamera |-> NoCamera, hasOriginBottomLeft |-> FALSE],
     [world |-> Translation, view |-> Scaling, projection |-> Shear,
      transform |-> Shear, fogColor |-> <<Whole(0), Whole(0), Whole(0)>>,
      deltaTime |-> 1000, activeCamera |-> Camera(Rat(1, 10), Whole(100)),
      hasOriginBottomLeft |-> TRUE],
     [world |-> Scaling, view |-> Translation, projection |-> Identity,
      transform |-> Translation, fogColor |-> <<Whole(1), Whole(1), Whole(1)>>,
      deltaTime |-> 0, activeCamera |-> Camera(Whole(1), Whole(4)),
      hasOriginBottomLeft |-> FALSE]}

\* 1 / x for a float x = n / d > 0
Reciprocal(x) == Rat(x[2], x[1])

(***************************************************************************)
(* The bind callback.  The effect is the log of the calls made on it: a    *)
(* push is [fn, key, ref, matrix, floats], ref naming the object passed.   *)
(***************************************************************************)
NoMatrix == <<>>

Push(fn, key, ref, matrix, floats) ==
    [fn |-> fn, key |-> key, ref |-> ref, matrix |-> matrix, floats |-> floats]

Pushed(st, push) == [st EXCEPT !.pushes = Append(@, push)]

\* a WorldView case that multiplies into what the scratch matrix already holds
BindWorldViewAccumulating(st, key, draw) ==
    LET m == Multiply(st.worldView, Multiply(draw.world, draw.view))
    IN  Pushed([st EXCEPT !.worldView = m],
               Push("setMatrix", key, "_cachedWorldViewMatrix", m, <<>>))

\* case NodeMaterialSystemValues.WorldView
BindWorldView(st, key, draw) ==
    LET m == Multiply(draw.world, draw.view)
    IN  Pushed([st EXCEPT !.worldView = m],
               Push("setMatrix", key, "_cachedWorldViewMatrix", m, <<>>))

\* a WorldViewProjection case that multiplies into a matrix allocated per call
BindWorldViewProjectionAllocating(st, key, draw) ==
    Pushed(st, Push("setMatrix", key, "new Matrix()",
                    Multiply(draw.world, draw.transform), <<>>))

\* a WorldViewProjection case that ends in `return`: the callback returns
BindWorldViewProjectionReturning(st, key, draw) ==
    LET m == Multiply(draw.world, draw.transform)
    IN  [Pushed([st EXCEPT !.worldViewProjection = m],
                Push("setMatrix", key, "_cachedWorldViewProjectionMatrix", m, <<>>))
            EXCEPT !.returned = TRUE]

\* case NodeMaterialSystemValues.WorldViewProjection
BindWorldViewProjection(st, key, draw) ==
    LET m == Multiply(draw.world, draw.transform)
    IN  Pushed([st EXCEPT !.worldViewProjection = m],
               Push("setMatrix", key, "_cachedWorldViewProjectionMatrix", m, <<>>))

\* a CameraParameters case without the test for an active camera
BindCameraParametersUnguarded(st, key, draw) ==
    Pushed(st, Push("setFloat4", key, "", NoMatrix,
                <<IF draw.hasOriginBottomLeft THEN Whole(-1) ELSE Whole(1),
                  draw.activeCamera.minZ, draw.activeCamera.maxZ,
                  Reciprocal(draw.activeCamera.maxZ)>>))

\* case NodeMaterialSystemValues.CameraParameters
BindCameraParameters(st, key, draw) ==
    IF draw.activeCamera.present
    THEN Pushed(st, Push("setFloat4", key, "", NoMatrix,
                <<IF draw.hasOriginBottomLeft THEN Whole(-1) ELSE Whole(1),
                  draw.activeCamera.minZ, draw.activeCamera.maxZ,
                  Reciprocal(draw.activeCamera.maxZ)>>))
    ELSE st

\* a DeltaTime case that pushes the milliseconds as they are
BindDeltaTimeMilliseconds(st, key, draw) ==
    Pushed(st, Push("setFloat", key, "", NoMatrix, <<Whole(draw.deltaTime)>>))

\* case NodeMaterialSystemValues.DeltaTime
BindDeltaTime(st, key, draw) ==
    Pushed(st, Push("setFloat", key, "", NoMatrix, <<Rat(draw.deltaTime, 1000)>>))

\* the system-value switch: the state of the walk after one entry
BindSystemValue(st, key, kind, draw) ==
    CASE kind = "World" ->
           Pushed(st, Push("setMatrix", key, "mesh.worldMatrix", draw.world, <<>>))
      [] kind = "WorldView" -> BindWorldView(st, key, draw)
      [] kind = "WorldViewProjection" -> BindWorldViewProjection(st, key, draw)
      [] kind = "View" ->
           Pushed(st, Push("setMatrix", key, "scene.viewMatrix", draw.view, <<>>))
      [] kind = "Projection" ->
           Pushed(st, Push("setMatrix", key, "scene.projectionMatrix",
                           draw.projection, <<>>))
      [] kind = "ViewProjection" ->
           Pushed(st, Push("setMatrix", key, "scene.transformMatrix",
                           draw.transform, <<>>))
      [] kind = "CameraPosition" ->
           Pushed(st, Push("bindEyePosition", key, "scene", NoMatrix, <<>>))
      [] kind = "FogColor" ->
           Pushed(st, Push("setColor3", key, "scene.fogColor", NoMatrix,
                           draw.fogColor))
      [] kind = "DeltaTime" -> BindDeltaTime(st, key, draw)
      [] kind = "CameraParameters" -> BindCameraParameters(st, key, draw)
      [] OTHER -> st

\* a Color4 case that leaves the alpha to setColor4's caller: opaque
BindColor4Opaque(st, key, value) ==
    Pushed(st, Push("setColor4", key, "directValue", NoMatrix,
                    SubSeq(value.data, 1, 3) \o <<Whole(1)>>))

\* case "Color4": effect.setColor4(key, value, value.a)
BindColor4(st, key, value) ==
    Pushed(st, Push("setColor4", key, "directValue", NoMatrix,
                    SubSeq(value.data, 1, 3) \o <<value.data[4]>>))

\* switch (value.getClassName()): a value without the method throws
BindByClassName(st, key, value) ==
    IF ~HasGetClassName(value)
    THEN [st EXCEPT !.thrown = TRUE, !.thrownAt = key]
    ELSE CASE value.className = "Vector3" ->
                Pushed(st, Push("setVector3", key, "directValue", NoMatrix,
                                value.data))
           [] value.className = "Vector4" ->
                Pushed(st, Push("setVector4", key, "directValue", NoMatrix,
                                value.data))
           [] value.className = "Color3" ->
                Pushed(st, Push("setColor3", key, "directValue", NoMatrix,
                                value.data))
           [] value.className = "Color4" -> BindColor4(st, key, value)
           [] OTHER -> st

\* a direct-value branch without the `if (value)` test
BindDirectValueUnguarded(st, key, value) == BindByClassName(st, key, value)

\* the direct-value branch: the state of the walk after one entry
BindDirectValue(st, key, value) ==
    IF Truthy(value) THEN BindByClassName(st, key, value) ELSE st

\* a loop body that turns to the direct value when the system-value switch
\* has pushed nothing for the entry
BindEntryFallingBack(st, key, entry, draw) ==
    IF entry.systemValueType # NoSystemValue
    THEN LET after == BindSystemValue(st, key, entry.systemValueType, draw)
         IN  IF Len(after.pushes) = Len(st.pushes)
             THEN BindDirectValue(after, key, entry.directValue)
             ELSE after
    ELSE BindDirectValue(st, key, entry.directValue)

\* the body of the loop over the ledger, for one entry
BindEntry(st, key, entry, draw) ==
    IF entry.systemValueType # NoSystemValue
    THEN BindSystemValue(st, key, entry.systemValueType, draw)
    ELSE BindDirectValue(st, key, entry.directValue)

\* the loop over the ledger from its i-th property on; an exception or a
\* `return` ends it
RECURSIVE BindFrom(_, _, _, _)
BindFrom(st, ledger, i, draw) ==
    IF i > Len(ledger) \/ st.thrown \/ st.returned THEN st
    ELSE BindFrom(
            [BindEntry(st, ledger[i].key, ledger[i].entry, draw)
                EXCEPT !.visited = Append(@, ledger[i].key)],
            ledger, i + 1, draw)

(***************************************************************************)
(* State.                                                                  *)
(***************************************************************************)
VARIABLES
    inputBlocks,        \* _material.getInputBlocks()
    buildObservers,     \* handlers this helper has on _material.onBuildObservable
    _shaderMaterial,    \* undefined, null, or a reference into shaderMaterials
    _uniformLedger,
    _cachedWorldViewMatrix,
    _cachedWorldViewProjectionMatrix,
    shaderMaterials,    \* every ShaderMaterial created so far
    observers,          \* listeners on onShaderMaterialCreatedObservable
    notifications,      \* what notifyObservers has emitted so far
    last,               \* the latest draw and the calls it made on the effect
    previous,           \* the draw before it
    signals,            \* build-complete signals fired so far
    disposed,           \* dispose() has been called
    disposedUnbuilt,    \* dispose() was called before the first signal
    edits,              \* writes made so far through the `ledger` getter
    disposesInARow,     \* the latest operations were this many dispose() calls
    _fluidRenderer,     \* scene._fluidRenderer: undefined, null, or a reference
    fluidRenderers,     \* every FluidRenderer created so far
    component,          \* the scene has its FluidRendererSceneComponent
    enableResult,       \* what the latest enableFluidRenderer() call returned
    assigned            \* the `fluidRenderer` setter has been used

vars ==
    <<inputBlocks, buildObservers, _shaderMaterial, _uniformLedger,
      _cachedWorldViewMatrix, _cachedWorldViewProjectionMatrix, shaderMaterials,
      observers, notifications, last, previous, signals, disposed,
      disposedUnbuilt, edits, disposesInARow, _fluidRenderer, fluidRenderers,
      component, enableResult, assigned>>

\* the scene's side of the fluid renderer
fluidVars == <<_fluidRenderer, fluidRenderers, component, enableResult, assigned>>

\* the runtime helper's side
replayVars ==
    <<inputBlocks, buildObservers, _shaderMaterial, _uniformLedger,
      _cachedWorldViewMatrix, _cachedWorldViewProjectionMatrix, shaderMaterials,
      observers, notifications, last, previous, signals, disposed,
      disposedUnbuilt, edits, disposesInARow>>

Listeners == {"listener"}

NoShaderMaterial(tag) == [tag |-> tag, id |-> 0]
Reference(id) == [tag |-> "ref", id |-> id]

\* no draw has happened
NoDraw ==
    [done |-> FALSE, draw |-> <<>>, ledger |-> <<>>, pushes |-> <<>>,
     thrown |-> FALSE, thrownAt |-> "", visited |-> <<>>, runs |-> 0]

(***************************************************************************)
(* The constructor: the fields' initialisers and the addOnce registration. *)
(***************************************************************************)
Constructed ==
    /\ buildObservers = 1
    /\ _shaderMaterial = NoShaderMaterial("undefined")
    /\ _uniformLedger = <<>>
    /\ _cachedWorldViewMatrix = Identity
    /\ _cachedWorldViewProjectionMatrix = Identity
    /\ shaderMaterials = <<>>
    /\ observers = {}
    /\ notifications = <<>>
    /\ last = NoDraw
    /\ previous = NoDraw
    /\ signals = 0
    /\ disposed = FALSE
    /\ disposedUnbuilt = FALSE
    /\ edits = 0
    /\ disposesInARow = 0

NoFluidRenderer(tag) == [tag |-> tag, id |-> 0]

\* a scene on which nothing of the fluid renderer has run yet
SceneConstructed ==
    /\ _fluidRenderer = NoFluidRenderer("undefined")
    /\ fluidRenderers = <<>>
    /\ component = FALSE
    /\ enableResult = NoFluidRenderer("undefined")
    /\ assigned = FALSE

Init ==
    /\ inputBlocks \in BlockLists(FewInputBlocks)
    /\ Constructed
    /\ SceneConstructed

(***************************************************************************)
(* The build-complete handler, step by step, on the record                 *)
(* h = [shaderMaterial, ledger, materials, notifications].                 *)
(***************************************************************************)
\* the uniform list and the ledger after the loop over the input blocks
BuildLedger(ledger, blocks) ==
    VisitInputBlocks([uniforms |-> <<>>, ledger |-> ledger], blocks)

\* new ShaderMaterial("shaderMaterial", scene, sources, {uniforms})
CreateShaderMaterial(h, uniforms) ==
    [h EXCEPT !.materials =
                  Append(@, [uniforms |-> uniforms, bindObservers |-> 0, disposed |-> 0]),
              !.shaderMaterial = Reference(Len(h.materials) + 1)]

\* this._shaderMaterial.onBindObservable.add(...)
RegisterBind(h) ==
    [h EXCEPT !.materials[h.shaderMaterial.id].bindObservers = @ + 1]

\* onShaderMaterialCreatedObservable.notifyObservers(this._shaderMaterial):
\* each emission is logged with what a listener finds at that moment
NotifyShaderMaterialCreated(h, listening) ==
    [h EXCEPT !.notifications =
        Append(@, [value |-> h.shaderMaterial, to |-> listening,
                   created |-> Len(h.materials), ledger |-> h.ledger,
                   bindObservers |->
                       IF h.shaderMaterial.tag = "ref"
                       THEN h.materials[h.shaderMaterial.id].bindObservers
                       ELSE 0])]

\* the handler given to onBuildObservable.addOnce
BuildHandler(h, blocks, listening) ==
    LET built == BuildLedger(h.ledger, blocks)
        h1 == [h EXCEPT !.ledger = built.ledger]
        h2 == CreateShaderMaterial(h1, built.uniforms)
        h3 == RegisterBind(h2)
    IN  NotifyShaderMaterialCreated(h3, listening)

\* add instead of addOnce: the handler stays registered
AfterNotify(n) == n

\* addOnce: the handlers left on onBuildObservable after it has fired
AfterNotifyOnce(n) == 0

Count(n, max) == IF n < max THEN n + 1 ELSE n

\* the material raises onBuildObservable
OnBuild ==
    LET h == [shaderMaterial |-> _shaderMaterial, ledger |-> _uniformLedger,
              materials |-> shaderMaterials, notifications |-> notifications]
    IN  \E g \in {IF buildObservers > 0
                  THEN BuildHandler(h, inputBlocks, observers) ELSE h} :
        /\ _shaderMaterial' = g.shaderMaterial
        /\ _uniformLedger' = g.ledger
        /\ shaderMaterials' = g.materials
        /\ notifications' = g.notifications
        /\ buildObservers' = AfterNotifyOnce(buildObservers)
        /\ signals' = Count(signals, MaxSignals)
        /\ disposesInARow' = 0
        /\ UNCHANGED <<inputBlocks, _cachedWorldViewMatrix,
                       _cachedWorldViewProjectionMatrix, observers, last, previous,
                       disposed, disposedUnbuilt, edits>>
        /\ UNCHANGED fluidVars

(***************************************************************************)
(* dispose()                                                               *)
(***************************************************************************)
\* ShaderMaterial.dispose(): the material is released and its
\* onBindObservable cleared
ShaderMaterialDispose(m) ==
    [m EXCEPT !.disposed = @ + 1, !.bindObservers = 0]

\* a dispose() that releases the material and keeps its reference
DisposeHelperKeepsReference(h) ==
    IF h.shaderMaterial.tag = "ref"
    THEN [h EXCEPT !.materials[h.shaderMaterial.id] = ShaderMaterialDispose(@)]
    ELSE h

\* a dispose() that empties the ledger as well
DisposeHelperClearingLedger(h) ==
    IF h.shaderMaterial.tag = "ref"
    THEN [h EXCEPT !.shaderMaterial = NoShaderMaterial("null"),
                   !.materials[h.shaderMaterial.id] = ShaderMaterialDispose(@),
                   !.ledger = <<>>]
    ELSE [h EXCEPT !.ledger = <<>>]

\* the helper's fields after dispose(), on [shaderMaterial, materials, ledger]
DisposeHelper(h) ==
    IF h.shaderMaterial.tag = "ref"
    THEN [h EXCEPT !.shaderMaterial = NoShaderMaterial("null"),
                   !.materials[h.shaderMaterial.id] = ShaderMaterialDispose(@)]
    ELSE h

Dispose ==
    \E g \in {DisposeHelper([shaderMaterial |-> _shaderMaterial,
                             materials |-> shaderMaterials,
                             ledger |-> _uniformLedger])} :
        /\ _shaderMaterial' = g.shaderMaterial
        /\ shaderMaterials' = g.materials
        /\ _uniformLedger' = g.ledger
        /\ observers' = {}
        /\ disposed' = TRUE
        /\ disposedUnbuilt' = (disposedUnbuilt \/ signals = 0)
        /\ disposesInARow' = Count(disposesInARow, MaxDisposes)
        /\ UNCHANGED <<inputBlocks, buildObservers,
                       _cachedWorldViewMatrix, _cachedWorldViewProjectionMatrix,
                       notifications, last, previous, signals, edits>>
        /\ UNCHANGED fluidVars

(***************************************************************************)
(* A listener subscribes to onShaderMaterialCreatedObservable.             *)
(***************************************************************************)
AddObserver(l) ==
    /\ l \notin observers
    /\ observers' = observers \cup {l}
    /\ disposesInARow' = 0
    /\ UNCHANGED <<inputBlocks, buildObservers, _shaderMaterial, _uniformLedger,
                   _cachedWorldViewMatrix, _cachedWorldViewProjectionMatrix,
                   shaderMaterials, notifications, last, previous, signals,
                   disposed, disposedUnbuilt, edits>>
    /\ UNCHANGED fluidVars

(***************************************************************************)
(* A mesh is drawn with a shader material: its onBindObservable fires.     *)
(***************************************************************************)
\* one run of the bind callback, from the walk state st of earlier runs
BindCallback(st, shaderMaterial, ledger, draw) ==
    IF shaderMaterial.tag # "ref"
    THEN [st EXCEPT !.thrown = TRUE, !.runs = @ + 1]
    ELSE [BindFrom(st, ledger, 1, draw) EXCEPT !.runs = @ + 1, !.returned = FALSE]

\* onBindObservable.notifyObservers(mesh): every registered callback runs
RECURSIVE NotifyBind(_, _, _, _, _)
NotifyBind(st, n, shaderMaterial, ledger, draw) ==
    IF n = 0 \/ st.thrown THEN st
    ELSE NotifyBind(BindCallback(st, shaderMaterial, ledger, draw), n - 1,
                    shaderMaterial, ledger, draw)

\* a callback that walks the ledger as the build handler left it
WalkedLedgerAsBuilt(ledger, emitted) ==
    IF emitted = <<>> THEN ledger ELSE emitted[1].ledger

\* the ledger a run of the callback walks: this._uniformLedger, read when
\* the loop starts (emitted: what the build handler emitted, with its ledger)
WalkedLedger(ledger, emitted) == ledger

BindStart(worldView, worldViewProjection) ==
    [pushes |-> <<>>, worldView |-> worldView,
     worldViewProjection |-> worldViewProjection, thrown |-> FALSE,
     thrownAt |-> "", visited |-> <<>>, runs |-> 0, returned |-> FALSE]

Bind(id, draw) ==
    /\ shaderMaterials[id].bindObservers > 0
    /\ \E st \in {NotifyBind(
                    BindStart(_cachedWorldViewMatrix, _cachedWorldViewProjectionMatrix),
                    shaderMaterials[id].bindObservers, _shaderMaterial,
                    WalkedLedger(_uniformLedger, notifications), draw)} :
           /\ _cachedWorldViewMatrix' = st.worldView
           /\ _cachedWorldViewProjectionMatrix' = st.worldViewProjection
           /\ last' = [done |-> TRUE, draw |-> draw, ledger |-> _uniformLedger,
                       pushes |-> st.pushes, thrown |-> st.thrown,
                       thrownAt |-> st.thrownAt, visited |-> st.visited,
                       runs |-> st.runs]
    /\ previous' = last
    /\ disposesInARow' = 0
    /\ UNCHANGED <<inputBlocks, buildObservers, _shaderMaterial, _uniformLedger,
                   shaderMaterials, observers, notifications, signals, disposed,
                   disposedUnbuilt, edits>>
    /\ UNCHANGED fluidVars

Next ==
    \/ OnBuild
    \/ Dispose
    \/ \E l \in Listeners : AddObserver(l)
    \/ \E id \in 1..Len(shaderMaterials), draw \in Draws : Bind(id, draw)

Spec == Init /\ [][Next]_vars

(***************************************************************************)
(* The bind callback over every ledger the handler can build: the          *)
(* material's input blocks range over all of InputBlocks.                  *)
(***************************************************************************)
InitBind ==
    /\ inputBlocks \in BlockLists(InputBlocks)
    /\ Constructed
    /\ SceneConstructed

\* the material is built once
FirstBuild ==
    /\ signals = 0
    /\ OnBuild

NextBind ==
    \/ FirstBuild
    \/ \E id \in 1..Len(shaderMaterials), draw \in Draws : Bind(id, draw)

SpecBind == InitBind /\ [][NextBind]_vars

(***************************************************************************)
(* An external caller writes to the ledger it got from the `ledger`        *)
(* getter, at any time after construction.                                 *)
(***************************************************************************)
\* the entries a caller stores: they carry a system value and a direct
\* value at once, of a kind the switch skips without a camera and of a kind
\* it has no case for
EditEntries ==
    {Entry("CameraParameters", Vector3), Entry("MaterialAlpha", Color3)}

\* the direct values a caller stores into an entry
EditValues == {Vector3}

\* helper.ledger[key] = entry
SetEntry(key, entry) ==
    /\ edits < MaxEdits
    /\ edits' = edits + 1
    /\ _uniformLedger' = SetProperty(_uniformLedger, key, entry)
    /\ disposesInARow' = 0
    /\ UNCHANGED <<inputBlocks, buildObservers, _shaderMaterial,
                   _cachedWorldViewMatrix, _cachedWorldViewProjectionMatrix,
                   shaderMaterials, observers, notifications, last, previous,
                   signals, disposed, disposedUnbuilt>>
    /\ UNCHANGED fluidVars

\* helper.ledger[key].directValue = value
SetDirectValue(key, value) ==
    /\ key \in Keys(_uniformLedger)
    /\ SetEntry(key, [GetProperty(_uniformLedger, key) EXCEPT !.directValue = value])

\* the input blocks of the specification with external writes
EditInputBlocks ==
    {InputBlock("a", TRUE, "WorldViewProjection", Undefined),
     InputBlock("b", TRUE, NoSystemValue, Color4)}

\* the draws of the specification with external writes: without and with
\* an active camera
EditDraws == {draw \in Draws : draw.deltaTime > 0}

\* the material declares each of its uniforms once
InitEdit ==
    /\ inputBlocks \in {blocks \in BlockLists(EditInputBlocks) :
                            \A i, j \in 1..Len(blocks) :
                                blocks[i] = blocks[j] => i = j}
    /\ Constructed
    /\ SceneConstructed

NextEdit ==
    \/ FirstBuild
    \/ Dispose
    \/ \E id \in 1..Len(shaderMaterials), draw \in EditDraws : Bind(id, draw)
    \/ \E key \in Names, entry \in EditEntries : SetEntry(key, entry)
    \/ \E key \in Names, value \in EditValues : SetDirectValue(key, value)

SpecEdit == InitEdit /\ [][NextEdit]_vars

(***************************************************************************)
(* The fluid renderer of a scene: enableFluidRenderer, disableFluidRenderer *)
(* and the FluidRendererSceneComponent, on the record                      *)
(* f = [fluidRenderer, renderers, enableResult].                           *)
(***************************************************************************)
\* new FluidRenderer(scene): the object, with the calls made on it so far
\* (disposedAgain: dispose() more than once; late: a hook call after the
\* disposal) and whether it finds every earlier renderer disposed
FluidRendererNew(renderers) ==
    [disposed |-> FALSE, disposedAgain |-> FALSE, prepared |-> FALSE,
     rendered |-> FALSE, late |-> FALSE,
     alone |-> \A i \in 1..Len(renderers) : renderers[i].disposed]

\* renderer.dispose(), as called by disableFluidRenderer
FluidRendererDispose(r) ==
    [r EXCEPT !.disposed = TRUE, !.disposedAgain = (@ \/ r.disposed)]

\* renderer._prepareRendering(), as called by the component; late: a call
\* has been made on the renderer after its disposal
PrepareRendering(r) ==
    [r EXCEPT !.prepared = TRUE, !.late = (@ \/ r.disposed)]

\* renderer._render(camera), as called by the component
Render(r) ==
    [r EXCEPT !.rendered = TRUE, !.late = (@ \/ r.disposed)]

\* Scene.prototype.enableFluidRenderer
enableFluidRenderer(f) ==
    IF f.fluidRenderer.tag = "ref"
    THEN [f EXCEPT !.enableResult = f.fluidRenderer]
    ELSE [f EXCEPT !.renderers = Append(@, FluidRendererNew(f.renderers)),
                   !.fluidRenderer = Reference(Len(f.renderers) + 1),
                   !.enableResult = Reference(Len(f.renderers) + 1)]

\* a disableFluidRenderer that disposes the renderer and keeps referring to it
disableFluidRendererKeepingReference(f) ==
    IF f.fluidRenderer.tag = "ref"
    THEN [f EXCEPT !.renderers[f.fluidRenderer.id] = FluidRendererDispose(@)]
    ELSE [f EXCEPT !.fluidRenderer = NoFluidRenderer("null")]

\* Scene.prototype.disableFluidRenderer
disableFluidRenderer(f) ==
    IF f.fluidRenderer.tag = "ref"
    THEN [f EXCEPT !.renderers[f.fluidRenderer.id] = FluidRendererDispose(@),
                   !.fluidRenderer = NoFluidRenderer("null")]
    ELSE [f EXCEPT !.fluidRenderer = NoFluidRenderer("null")]

\* a rebuild() without the test for a renderer
rebuildUnguarded(f) ==
    [enableFluidRenderer(disableFluidRenderer(f)) EXCEPT !.enableResult = f.enableResult]

\* FluidRendererSceneComponent.rebuild: the value enableFluidRenderer
\* returns is dropped
rebuild(f) ==
    IF f.fluidRenderer.tag = "ref"
    THEN [enableFluidRenderer(disableFluidRenderer(f))
             EXCEPT !.enableResult = f.enableResult]
    ELSE f

\* the scene's fields as the record the operations work on
SceneFields ==
    [fluidRenderer |-> _fluidRenderer, renderers |-> fluidRenderers,
     enableResult |-> enableResult]

\* the scene's fields become those of g
Becomes(g) ==
    /\ _fluidRenderer' = g.fluidRenderer
    /\ fluidRenderers' = g.renderers
    /\ enableResult' = g.enableResult

\* a caller calls scene.enableFluidRenderer()
EnableFluidRenderer ==
    /\ \E g \in {enableFluidRenderer(SceneFields)} :
           /\ Len(g.renderers) <= MaxFluidRenderers
           /\ Becomes(g)
    /\ UNCHANGED <<component, assigned>>
    /\ UNCHANGED replayVars

\* a caller calls scene.disableFluidRenderer()
DisableFluidRenderer ==
    /\ \E g \in {disableFluidRenderer(SceneFields)} : Becomes(g)
    /\ UNCHANGED <<component, assigned>>
    /\ UNCHANGED replayVars

\* scene.fluidRenderer = value, by a caller that holds a renderer or null;
\* the caller does it once
SetFluidRenderer(value) ==
    /\ ~assigned
    /\ _fluidRenderer' = value
    /\ assigned' = TRUE
    /\ UNCHANGED <<fluidRenderers, component, enableResult>>
    /\ UNCHANGED replayVars

\* FluidRenderer._SceneComponentInitialization: the scene gets its
\* component, once
SceneComponentInitialization ==
    /\ ~component
    /\ component' = TRUE
    /\ UNCHANGED <<_fluidRenderer, fluidRenderers, enableResult, assigned>>
    /\ UNCHANGED replayVars

\* the scene runs the component's _gatherActiveCameraRenderTargets step
GatherActiveCameraRenderTargets ==
    /\ component
    /\ fluidRenderers' =
          IF _fluidRenderer.tag = "ref"
          THEN [fluidRenderers EXCEPT ![_fluidRenderer.id] = PrepareRendering(@)]
          ELSE fluidRenderers
    /\ UNCHANGED <<_fluidRenderer, component, enableResult, assigned>>
    /\ UNCHANGED replayVars

\* the scene runs the component's _afterCameraDraw step
AfterCameraDraw ==
    /\ component
    /\ fluidRenderers' =
          IF _fluidRenderer.tag = "ref"
          THEN [fluidRenderers EXCEPT ![_fluidRenderer.id] = Render(@)]
          ELSE fluidRenderers
    /\ UNCHANGED <<_fluidRenderer, component, enableResult, assigned>>
    /\ UNCHANGED replayVars

\* component.rebuild()
Rebuild ==
    /\ component
    /\ \E g \in {rebuild(SceneFields)} :
           /\ Len(g.renderers) <= MaxFluidRenderers
           /\ Becomes(g)
    /\ UNCHANGED <<component, assigned>>
    /\ UNCHANGED replayVars

\* component.dispose()
ComponentDispose ==
    /\ component
    /\ \E g \in {disableFluidRenderer(SceneFields)} : Becomes(g)
    /\ UNCHANGED <<component, assigned>>
    /\ UNCHANGED replayVars

\* a scene whose material has no runtime helper work to do
InitFluid ==
    /\ inputBlocks = <<>>
    /\ Constructed
    /\ SceneConstructed

NextFluid ==
    \/ EnableFluidRenderer
    \/ DisableFluidRenderer
    \/ \E value \in {NoFluidRenderer("null")}
                        \cup {Reference(id) : id \in 1..Len(fluidRenderers)} :
           SetFluidRenderer(value)
    \/ SceneComponentInitialization
    \/ GatherActiveCameraRenderTargets
    \/ AfterCameraDraw
    \/ Rebuild
    \/ ComponentDispose

SpecFluid == InitFluid /\ [][NextFluid]_vars

(***************************************************************************)
(* Lifecycle properties.                                                   *)
(***************************************************************************)
\* the fields of the helper and of the objects it owns
helperVars ==
    <<buildObservers, _shaderMaterial, _uniformLedger, _cachedWorldViewMatrix,
      _cachedWorldViewProjectionMatrix, shaderMaterials, observers, notifications>>

MaterialIds == 1..Len(shaderMaterials)

\* the names of the input blocks marked as uniforms
UniformNames(blocks) ==
    {blocks[i].associatedVariableName :
        i \in {j \in 1..Len(blocks) : blocks[j].isUniform}}

\* C1: when dispose() is called before the build-complete signal and the
\* signal fires afterwards, no shader material is created: _shaderMaterial
\* stays absent, no bind hook is registered and no shader-ready notification
\* is emitted.
C1_DisposeBeforeBuildCancels ==
    (disposedUnbuilt /\ signals > 0) =>
        /\ _shaderMaterial.tag # "ref"
        /\ shaderMaterials = <<>>
        /\ \A id \in MaterialIds : shaderMaterials[id].bindObservers = 0
        /\ notifications = <<>>

\* C2: dispose() is idempotent, Unbuilt or Ready: after a call the helper
\* holds no shader material, a call that follows another one changes nothing,
\* and no shader material is released more than once.
C2_DisposeIdempotent ==
    /\ [](disposesInARow > 0 => _shaderMaterial.tag # "ref")
    /\ [](\A id \in MaterialIds : shaderMaterials[id].disposed <= 1)
    /\ [][(disposesInARow > 0 /\ Dispose) => UNCHANGED helperVars]_vars

\* C2 witness: a Ready helper disposed twice in a row
C2_Witness ==
    /\ disposesInARow >= 2
    /\ ~disposedUnbuilt
    /\ Len(shaderMaterials) = 1
    /\ shaderMaterials[1].disposed = 1

\* C3: the handler's work happens at most once: the first signal on an
\* Unbuilt helper makes it Ready, and every later signal leaves the ledger,
\* the shader material and the bind-hook registration as they are (no second
\* shader material, no second bind hook).
C3_BuildsOnce ==
    /\ [](/\ Len(shaderMaterials) <= 1
          /\ \A id \in MaterialIds : shaderMaterials[id].bindObservers <= 1)
    /\ [][(signals > 0 /\ OnBuild) =>
            UNCHANGED <<_uniformLedger, _shaderMaterial, shaderMaterials,
                        notifications>>]_vars
    /\ [][(signals = 0 /\ ~disposed /\ OnBuild) =>
            /\ _shaderMaterial' = Reference(1)
            /\ Len(shaderMaterials') = 1
            /\ shaderMaterials'[1].bindObservers = 1
            /\ Keys(_uniformLedger') = UniformNames(inputBlocks)]_vars

\* C3 witness: a second signal has fired on a Ready helper
C3_Witness ==
    /\ signals >= 2
    /\ _shaderMaterial = Reference(1)
    /\ Len(shaderMaterials) = 1
    /\ shaderMaterials[1].bindObservers = 1

\* C6: the shader-ready notification is emitted at most once, only as part
\* of the Unbuilt -> Ready transition; it carries the shader material just
\* created, and when it is emitted the ledger is built and the bind hook is
\* registered.
C6_ShaderReadyOnceOnUnbuiltToReady ==
    /\ [](/\ Len(notifications) <= 1
          /\ \A i \in 1..Len(notifications) :
                /\ notifications[i].created > 0
                /\ notifications[i].value = Reference(notifications[i].created)
                /\ Keys(notifications[i].ledger) = UniformNames(inputBlocks)
                /\ notifications[i].bindObservers = 1)
    /\ [][notifications' # notifications =>
            /\ signals = 0
            /\ ~disposed
            /\ _shaderMaterial.tag = "undefined"
            /\ _shaderMaterial'.tag = "ref"]_vars

\* C6 without the lifecycle state the emission starts from: what holds of
\* every emission, a disposed helper's included
C6_EmissionOnceAfterSetup ==
    /\ [](/\ Len(notifications) <= 1
          /\ \A i \in 1..Len(notifications) :
                /\ notifications[i].created > 0
                /\ notifications[i].value = Reference(notifications[i].created)
                /\ Keys(notifications[i].ledger) = UniformNames(inputBlocks)
                /\ notifications[i].bindObservers = 1)
    /\ [][notifications' # notifications =>
            /\ signals = 0
            /\ _shaderMaterial.tag = "undefined"
            /\ _shaderMaterial'.tag = "ref"]_vars

(***************************************************************************)
(* Properties of ledger construction and of the bind callback, stated on   *)
(* the latest draw (last) and the draw before it (previous).               *)
(***************************************************************************)
KeySeq(ledger) == [i \in 1..Len(ledger) |-> ledger[i].key]

\* the pushes a draw made for a uniform name
PushesFor(d, key) == {j \in 1..Len(d.pushes) : d.pushes[j].key = key}

\* the entries of a draw's ledger that the walk reached
Reached(d) == {i \in 1..Len(d.ledger) : d.ledger[i].key \in Range(d.visited)}

\* the walk went on to the entry after the i-th one
WentOn(d, i) == i < Len(d.ledger) => d.ledger[i + 1].key \in Range(d.visited)

\* the entries of a draw's ledger with a given system-value kind
OfKind(d, kind) ==
    {i \in 1..Len(d.ledger) : d.ledger[i].entry.systemValueType = kind}

Resolvable(entry) ==
    IF entry.systemValueType # NoSystemValue
    THEN entry.systemValueType \in HandledSystemValues
    ELSE /\ entry.directValue.type = "object"
         /\ entry.directValue.className \in {"Vector3", "Vector4", "Color3", "Color4"}

\* C4: a dispatch never throws and never stops before the end of the
\* ledger, whatever the ledger holds: an entry with an unhandled system
\* value, or a direct value that is no Vector3, Vector4, Color3 or Color4 (a
\* plain number, a matrix) or is null, is skipped without a push, and the
\* entries after it are still resolved.
C4_BindNeverThrows ==
    last.done =>
        /\ ~last.thrown
        /\ last.visited = KeySeq(last.ledger)
        /\ \A i \in 1..Len(last.ledger) :
              ~Resolvable(last.ledger[i].entry) =>
                  PushesFor(last, last.ledger[i].key) = {}

\* the entry a declaration asks for
DeclaredEntry(inputBlock) ==
    IF inputBlock.isSystemValue THEN Entry(inputBlock.systemValue, Undefined)
    ELSE IF inputBlock.value # Undefined THEN Entry(NoSystemValue, inputBlock.value)
    ELSE EmptyEntry

\* the declaration that decides a name: the last uniform block carrying it
Deciding(blocks, i) ==
    /\ blocks[i].isUniform
    /\ \A j \in (i + 1)..Len(blocks) :
          blocks[j].isUniform =>
              blocks[j].associatedVariableName # blocks[i].associatedVariableName

\* C5: after the build handler the ledger holds exactly one entry per
\* declared uniform name and no other name; the entry is SystemValue(kind)
\* for a system-value declaration, DirectValue(value) for one that carries a
\* static value, and inert for one that is neither.
C5_LedgerMatchesDeclarations ==
    signals > 0 =>
        /\ Len(_uniformLedger) = Cardinality(Keys(_uniformLedger))
        /\ Keys(_uniformLedger) = UniformNames(inputBlocks)
        /\ \A i \in 1..Len(inputBlocks) :
              Deciding(inputBlocks, i) =>
                  GetProperty(_uniformLedger, inputBlocks[i].associatedVariableName)
                      = DeclaredEntry(inputBlocks[i])

\* the entry the handler builds for a declaration: C5 with "carries a static
\* value" read as JavaScript truthiness (an object, a number other than 0)
BuiltEntry(inputBlock) ==
    IF inputBlock.isSystemValue THEN Entry(inputBlock.systemValue, Undefined)
    ELSE IF inputBlock.value.type = "object"
              \/ (inputBlock.value.type = "number" /\ inputBlock.value.data # <<(<<0, 1>>)>>)
         THEN Entry(NoSystemValue, inputBlock.value)
         ELSE EmptyEntry

\* C5 as the code has it: names as in C5, entries as BuiltEntry gives them
C5_LedgerMatchesTruthyDeclarations ==
    signals > 0 =>
        /\ Len(_uniformLedger) = Cardinality(Keys(_uniformLedger))
        /\ Keys(_uniformLedger) = UniformNames(inputBlocks)
        /\ \A i \in 1..Len(inputBlocks) :
              Deciding(inputBlocks, i) =>
                  GetProperty(_uniformLedger, inputBlocks[i].associatedVariableName)
                      = BuiltEntry(inputBlocks[i])

\* what C7 asks of the pushes of draw d for the entries of one kind
ScratchPushes(d, kind, ref, other) ==
    \A i \in OfKind(d, kind) \cap Reached(d) :
        /\ Cardinality(PushesFor(d, d.ledger[i].key)) = 1
        /\ \A j \in PushesFor(d, d.ledger[i].key) :
              /\ d.pushes[j].fn = "setMatrix"
              /\ d.pushes[j].ref = ref
              /\ d.pushes[j].matrix = Multiply(d.draw.world, other)
              /\ d.draw.world = Identity => d.pushes[j].matrix = other

\* C7: every dispatch that resolves a WorldViewProjection (WorldView) entry
\* passes the same object, the helper's scratch matrix, and after the call
\* the scratch matrix holds world x scene transform (world x scene view) of
\* that call.
C7_ScratchMatrixReused ==
    /\ previous.done =>
          /\ ScratchPushes(previous, "WorldViewProjection",
                           "_cachedWorldViewProjectionMatrix", previous.draw.transform)
          /\ ScratchPushes(previous, "WorldView", "_cachedWorldViewMatrix",
                           previous.draw.view)
    /\ last.done =>
          /\ ScratchPushes(last, "WorldViewProjection",
                           "_cachedWorldViewProjectionMatrix", last.draw.transform)
          /\ ScratchPushes(last, "WorldView", "_cachedWorldViewMatrix",
                           last.draw.view)
          /\ OfKind(last, "WorldViewProjection") \cap Reached(last) # {} =>
                _cachedWorldViewProjectionMatrix
                    = Multiply(last.draw.world, last.draw.transform)
          /\ OfKind(last, "WorldView") \cap Reached(last) # {} =>
                _cachedWorldViewMatrix = Multiply(last.draw.world, last.draw.view)

\* C7 witness: two draws with different inputs resolved WorldViewProjection,
\* the second with an identity world matrix
C7_Witness ==
    /\ previous.done
    /\ last.done
    /\ previous.draw # last.draw
    /\ last.draw.world = Identity
    /\ OfKind(previous, "WorldViewProjection") \cap Reached(previous) # {}
    /\ \E j \in 1..Len(last.pushes) :
          /\ last.pushes[j].ref = "_cachedWorldViewProjectionMatrix"
          /\ last.pushes[j].matrix = Translation
          /\ _cachedWorldViewProjectionMatrix = Translation

\* C8: two dispatches in succession with the same mesh, scene and ledger
\* make the same pushes with the same values and end the same way.
C8_RepeatedBindSamePushes ==
    (previous.done /\ last.done /\ previous.draw = last.draw
        /\ previous.ledger = last.ledger) =>
            /\ previous.pushes = last.pushes
            /\ previous.visited = last.visited
            /\ previous.thrown = last.thrown

\* C8 witness: the same draw twice, resolving a WorldView entry and another
C8_Witness ==
    /\ previous.done
    /\ last.done
    /\ previous.draw = last.draw
    /\ previous.ledger = last.ledger
    /\ last.draw.world # Identity
    /\ OfKind(last, "WorldView") \cap Reached(last) # {}
    /\ Len(last.pushes) = 2

\* C9: an entry with neither a system value nor a direct value causes no
\* push for its name and no error, and the walk goes on after it.
C9_InertEntrySkipped ==
    last.done =>
        /\ \A i \in Reached(last) :
              last.ledger[i].entry = EmptyEntry =>
                  /\ PushesFor(last, last.ledger[i].key) = {}
                  /\ ~(last.thrown /\ last.thrownAt = last.ledger[i].key)
                  /\ WentOn(last, i)
        /\ (\A i \in 1..Len(last.ledger) : last.ledger[i].entry = EmptyEntry) =>
              /\ ~last.thrown
              /\ last.pushes = <<>>
              /\ last.visited = KeySeq(last.ledger)

\* C9 witness: a draw walked an inert entry and then pushed another one
C9_Witness ==
    /\ last.done
    /\ Len(last.ledger) = 2
    /\ last.ledger[1].entry = EmptyEntry
    /\ last.visited = KeySeq(last.ledger)
    /\ Len(last.pushes) = 1

\* what C10 asks of draw d
CameraParametersPushes(d) ==
    \A i \in OfKind(d, "CameraParameters") \cap Reached(d) :
        /\ ~(d.thrown /\ d.thrownAt = d.ledger[i].key)
        /\ WentOn(d, i)
        /\ IF d.draw.activeCamera.present
           THEN /\ Cardinality(PushesFor(d, d.ledger[i].key)) = 1
                /\ \A j \in PushesFor(d, d.ledger[i].key) :
                      /\ d.pushes[j].fn = "setFloat4"
                      /\ d.pushes[j].floats[1] =
                            (IF d.draw.hasOriginBottomLeft THEN <<-1, 1>> ELSE <<1, 1>>)
                      /\ d.pushes[j].floats[2] = d.draw.activeCamera.minZ
                      /\ d.pushes[j].floats[3] = d.draw.activeCamera.maxZ
                      /\ d.pushes[j].floats[4] =
                            <<d.draw.activeCamera.maxZ[2], d.draw.activeCamera.maxZ[1]>>
                      /\ (/\ d.draw.hasOriginBottomLeft
                          /\ d.draw.activeCamera.minZ = <<1, 10>>
                          /\ d.draw.activeCamera.maxZ = <<100, 1>>) =>
                              d.pushes[j].floats
                                  = <<(<<-1, 1>>), <<1, 10>>, <<100, 1>>, <<1, 100>>>>
           ELSE PushesFor(d, d.ledger[i].key) = {}

\* C10: a CameraParameters entry makes no push when the scene has no active
\* camera, and the other entries are resolved; the skip lasts one call: a
\* dispatch with an active camera pushes (-1 if the engine's origin is
\* bottom-left else 1, near plane, far plane, 1 / far plane).
C10_CameraParameters ==
    /\ previous.done => CameraParametersPushes(previous)
    /\ last.done => CameraParametersPushes(last)

\* C10 witness: a draw without an active camera skipped the entry and pushed
\* the entry after it; the next draw, with the camera of near 0.1 and far 100
\* and a bottom-left origin, pushed (-1, 0.1, 100, 0.01)
C10_Witness ==
    /\ previous.done
    /\ ~previous.draw.activeCamera.present
    /\ Len(previous.ledger) = 2
    /\ previous.ledger[1].entry.systemValueType = "CameraParameters"
    /\ Len(previous.pushes) = 1
    /\ previous.pushes[1].key = previous.ledger[2].key
    /\ last.done
    /\ Len(last.pushes) = 2
    /\ last.pushes[1].key = last.ledger[1].key
    /\ last.pushes[1].floats = <<(<<-1, 1>>), <<1, 10>>, <<100, 1>>, <<1, 100>>>>

\* what C11 asks of the one push p a draw makes for an entry of a kind
Prescribed(p, kind, draw) ==
    CASE kind = "World" ->
           /\ p.fn = "setMatrix"
           /\ p.ref = "mesh.worldMatrix"
           /\ p.matrix = draw.world
      [] kind = "View" ->
           /\ p.fn = "setMatrix"
           /\ p.ref = "scene.viewMatrix"
           /\ p.matrix = draw.view
      [] kind = "Projection" ->
           /\ p.fn = "setMatrix"
           /\ p.ref = "scene.projectionMatrix"
           /\ p.matrix = draw.projection
      [] kind = "ViewProjection" ->
           /\ p.fn = "setMatrix"
           /\ p.ref = "scene.transformMatrix"
           /\ p.matrix = draw.transform
      [] kind = "WorldView" ->
           /\ p.fn = "setMatrix"
           /\ p.ref = "_cachedWorldViewMatrix"
      [] kind = "WorldViewProjection" ->
           /\ p.fn = "setMatrix"
           /\ p.ref = "_cachedWorldViewProjectionMatrix"
      [] kind = "CameraPosition" ->
           /\ p.fn = "bindEyePosition"
           /\ p.ref = "scene"
      [] kind = "FogColor" ->
           /\ p.fn = "setColor3"
           /\ p.floats = draw.fogColor
      [] kind = "DeltaTime" ->
           /\ p.fn = "setFloat"
           /\ Len(p.floats) = 1
           /\ p.floats[1][1] * 1000 = draw.deltaTime * p.floats[1][2]
           /\ draw.deltaTime = 16 => p.floats[1] = <<2, 125>>
      [] OTHER -> FALSE

\* the kinds C11 is about: the handled ones but CameraParameters
AlwaysPushed == HandledSystemValues \ {"CameraParameters"}

\* what C11 asks of draw d
PrescribedPushes(d) ==
    \A i \in Reached(d) :
        d.ledger[i].entry.systemValueType \in AlwaysPushed =>
            /\ Cardinality(PushesFor(d, d.ledger[i].key)) = 1
            /\ \A j \in PushesFor(d, d.ledger[i].key) :
                  Prescribed(d.pushes[j], d.ledger[i].entry.systemValueType, d.draw)

\* C11: for an entry of kind World, WorldView, WorldViewProjection, View,
\* Projection, ViewProjection, CameraPosition, FogColor or DeltaTime a
\* dispatch makes exactly one push for the entry's name, of the value the
\* kind prescribes (DeltaTime: the scene's delta time / 1000).
C11_SystemValuesPushed ==
    /\ previous.done => PrescribedPushes(previous)
    /\ last.done => PrescribedPushes(last)

\* C11 witness: a draw with a delta time of 16 ms pushed DeltaTime as 2/125
\* and WorldView from the scratch matrix, after a draw of 1000 ms
C11_Witness ==
    /\ last.done
    /\ last.draw.deltaTime = 16
    /\ Len(last.ledger) = 2
    /\ last.ledger[1].entry.systemValueType = "DeltaTime"
    /\ last.ledger[2].entry.systemValueType = "WorldView"
    /\ Len(last.pushes) = 2
    /\ last.pushes[1].floats = <<(<<2, 125>>)>>
    /\ last.pushes[2].ref = "_cachedWorldViewMatrix"
    /\ previous.done
    /\ previous.draw.deltaTime = 1000

\* what C12 asks of draw d
VariantPushes(d) ==
    \A i \in Reached(d) :
        LET entry == d.ledger[i].entry
            value == entry.directValue
        IN  (/\ entry.systemValueType = NoSystemValue
             /\ value.type = "object"
             /\ value.className \in {"Vector3", "Vector4", "Color3", "Color4"}) =>
                /\ Cardinality(PushesFor(d, d.ledger[i].key)) = 1
                /\ \A j \in PushesFor(d, d.ledger[i].key) :
                      /\ d.pushes[j].fn = "set" \o value.className
                      /\ d.pushes[j].ref = "directValue"
                      /\ d.pushes[j].floats = value.data
                      /\ Len(d.pushes[j].floats) =
                            (IF value.className \in {"Vector3", "Color3"} THEN 3 ELSE 4)
                      /\ value = Color4 =>
                            d.pushes[j].floats
                                = <<(<<1, 1>>), <<0, 1>>, <<0, 1>>, <<1, 2>>>>

\* C12: for a direct value that is a Vector3, Vector4, Color3 or Color4 a
\* dispatch makes exactly one push, of the variant's shape: setVector3 with 3
\* floats, setVector4 with 4, setColor3 with 3 channels, setColor4 with the 3
\* channels and the value's own alpha (Color4(1, 0, 0, 0.5): (1, 0, 0), 0.5).
C12_DirectValuesPushed ==
    /\ previous.done => VariantPushes(previous)
    /\ last.done => VariantPushes(last)

\* C12 witness: a draw pushed Color4(1, 0, 0, 0.5) as (1, 0, 0) and alpha 0.5
C12_Witness ==
    /\ last.done
    /\ Len(last.ledger) = 1
    /\ last.ledger[1].entry = Entry(NoSystemValue, Color4)
    /\ Len(last.pushes) = 1
    /\ last.pushes[1].fn = "setColor4"
    /\ last.pushes[1].floats = <<(<<1, 1>>), <<0, 1>>, <<0, 1>>, <<1, 2>>>>

\* the entry at i is one a draw with inputs d.draw has something to push for
ResolvableIn(d, i) ==
    /\ Resolvable(d.ledger[i].entry)
    /\ d.ledger[i].entry.systemValueType = "CameraParameters" =>
          d.draw.activeCamera.present

\* what C15 asks of draw d
WalkedPastWorldViewProjection(d) ==
    \A i \in OfKind(d, "WorldViewProjection") \cap Reached(d) :
        /\ Cardinality(PushesFor(d, d.ledger[i].key)) = 1
        /\ WentOn(d, i)
        /\ \A j \in 1..Len(d.ledger) :
              (j # i /\ ResolvableIn(d, j)) =>
                  Cardinality(PushesFor(d, d.ledger[j].key)) = 1

\* C15: resolving a WorldViewProjection entry does not end the dispatch:
\* every other resolvable entry of the ledger is pushed too, whether it comes
\* before or after that entry (the `return` after the `break` never runs).
C15_WorldViewProjectionGoesOn ==
    /\ previous.done => WalkedPastWorldViewProjection(previous)
    /\ last.done => WalkedPastWorldViewProjection(last)

\* C15 witness: a draw pushed a WorldViewProjection entry and then the
\* direct value that follows it in the ledger
C15_Witness ==
    /\ last.done
    /\ Len(last.ledger) = 2
    /\ last.ledger[1].entry.systemValueType = "WorldViewProjection"
    /\ last.ledger[2].entry = Entry(NoSystemValue, Vector3)
    /\ Len(last.pushes) = 2
    /\ last.pushes[1].ref = "_cachedWorldViewProjectionMatrix"
    /\ last.pushes[2].fn = "setVector3"
    /\ last.pushes[2].key = last.ledger[2].key

\* the names that only blocks not marked as uniforms carry
OtherNames(blocks) ==
    {blocks[i].associatedVariableName : i \in 1..Len(blocks)} \ UniformNames(blocks)

\* C17: the list of uniform names given to the ShaderMaterial names exactly
\* the uniforms of the ledger built by the same handler: a block marked as a
\* uniform gives its name to both, a block not marked to neither.
C17_UniformListMatchesLedger ==
    \A n \in 1..Len(notifications) :
        LET uniforms == shaderMaterials[notifications[n].created].uniforms
            ledger == notifications[n].ledger
        IN  /\ Range(uniforms) = Keys(ledger)
            /\ Range(uniforms) = UniformNames(inputBlocks)
            /\ Len(uniforms) =
                  Cardinality({i \in 1..Len(inputBlocks) : inputBlocks[i].isUniform})
            /\ \A i \in 1..Len(inputBlocks) :
                  inputBlocks[i].isUniform =>
                      /\ \E k \in 1..Len(uniforms) :
                            uniforms[k] = inputBlocks[i].associatedVariableName
                      /\ \E k \in 1..Len(ledger) :
                            ledger[k].key = inputBlocks[i].associatedVariableName
            /\ OtherNames(inputBlocks) \cap Range(uniforms) = {}
            /\ OtherNames(inputBlocks) \cap Keys(ledger) = {}

\* C17 witness: a material with a block that is no uniform and one that is
C17_Witness ==
    /\ Len(inputBlocks) = 2
    /\ ~inputBlocks[1].isUniform
    /\ inputBlocks[2].isUniform
    /\ inputBlocks[1].associatedVariableName # inputBlocks[2].associatedVariableName
    /\ Len(notifications) = 1
    /\ shaderMaterials[1].uniforms = <<inputBlocks[2].associatedVariableName>>
    /\ KeySeq(_uniformLedger) = shaderMaterials[1].uniforms

\* C14: the ledger and the shader material come into existence in the same
\* step and a dispatch happens in the Ready state only: the helper never
\* holds a shader material while the ledger lacks a declared uniform, no
\* dispatch happens before the build signal, and none after dispose().
C14_DispatchConfinedToReady ==
    /\ [](_shaderMaterial.tag = "ref" =>
            UniformNames(inputBlocks) \subseteq Keys(_uniformLedger))
    /\ [][(_shaderMaterial.tag # "ref" /\ _shaderMaterial'.tag = "ref") =>
            (_uniformLedger = <<>> /\ Keys(_uniformLedger') = UniformNames(inputBlocks))]_vars
    /\ [][(\E id \in MaterialIds, draw \in Draws : Bind(id, draw)) =>
            (signals > 0 /\ ~disposed)]_vars

\* C14 as the code has it: a dispatch needs a live shader material with the
\* bind hook, which exists after a build signal only, disposed helper or not
C14_DispatchNeedsBuild ==
    /\ [](_shaderMaterial.tag = "ref" =>
            UniformNames(inputBlocks) \subseteq Keys(_uniformLedger))
    /\ [][(\E id \in MaterialIds, draw \in Draws : Bind(id, draw)) =>
            (/\ signals > 0
             /\ _shaderMaterial.tag = "ref"
             /\ shaderMaterials[_shaderMaterial.id].disposed = 0)]_vars

\* a draw's pushes are those of the ledger as it was when the draw started
LivePushes(d) ==
    /\ ~d.thrown
    /\ d.visited = KeySeq(d.ledger)
    /\ \A j \in 1..Len(d.pushes) : d.pushes[j].key \in Keys(d.ledger)
    /\ VariantPushes(d)
    /\ PrescribedPushes(d)
    /\ CameraParametersPushes(d)

\* C13: the ledger is read at every dispatch: after a caller has replaced a
\* direct value, or added or replaced an entry, through the `ledger` getter
\* between two dispatches, the next dispatch pushes the new value and
\* resolves the added entry; the dispatches before the write pushed the old.
C13_LedgerReadLive ==
    /\ [](previous.done => LivePushes(previous))
    /\ [](last.done => LivePushes(last))
    /\ [][(\E id \in MaterialIds, draw \in Draws : Bind(id, draw)) =>
            (last'.ledger = _uniformLedger /\ previous' = last)]_vars

\* C13 witness: a draw pushed Color4 for "b"; then a caller stored a Vector3
\* in that entry and added an entry "a"; the next draw pushed the Vector3 for
\* "b" and the camera parameters for "a"
C13_Witness ==
    /\ previous.done
    /\ previous.ledger = <<[key |-> "b", entry |-> Entry(NoSystemValue, Color4)]>>
    /\ Len(previous.pushes) = 1
    /\ previous.pushes[1].fn = "setColor4"
    /\ last.done
    /\ last.ledger = <<[key |-> "b", entry |-> Entry(NoSystemValue, Vector3)],
                       [key |-> "a", entry |-> Entry("CameraParameters", Vector3)]>>
    /\ Len(last.pushes) = 2
    /\ last.pushes[1].fn = "setVector3"
    /\ last.pushes[1].key = "b"
    /\ last.pushes[2].fn = "setFloat4"
    /\ last.pushes[2].key = "a"

\* C16: a dispatch and dispose() leave the ledger as it is, names, kinds and
\* direct values; only the build handler and external callers write to it.
C16_LedgerFrame ==
    /\ [][(\E id \in MaterialIds, draw \in Draws : Bind(id, draw)) =>
            _uniformLedger' = _uniformLedger]_vars
    /\ [][Dispose => _uniformLedger' = _uniformLedger]_vars
    /\ [][_uniformLedger' # _uniformLedger =>
            \/ OnBuild
            \/ \E key \in Names, entry \in EditEntries : SetEntry(key, entry)
            \/ \E key \in Names, value \in EditValues : SetDirectValue(key, value)]_vars

\* C16 witness: a built and edited ledger that has been through a draw and
\* a dispose() is still what the draw found
C16_Witness ==
    /\ disposed
    /\ signals > 0
    /\ edits > 0
    /\ last.done
    /\ Len(last.pushes) = 2
    /\ _uniformLedger = last.ledger
    /\ _shaderMaterial.tag = "null"

\* the entry carries a system-value kind and a direct value at once
CarriesBoth(entry) ==
    /\ entry.systemValueType # NoSystemValue
    /\ Truthy(entry.directValue)

\* what C18 asks of draw d
SystemValueOnly(d) ==
    \A i \in Reached(d) :
        CarriesBoth(d.ledger[i].entry) =>
            /\ Cardinality(PushesFor(d, d.ledger[i].key)) <= 1
            /\ \A j \in PushesFor(d, d.ledger[i].key) :
                  /\ d.pushes[j].ref # "directValue"
                  /\ d.pushes[j].fn \notin {"setVector3", "setVector4", "setColor4"}
                  /\ d.pushes[j].floats # d.ledger[i].entry.directValue.data
            /\ ~ResolvableIn(d, i) => PushesFor(d, d.ledger[i].key) = {}
            /\ ResolvableIn(d, i) => Cardinality(PushesFor(d, d.ledger[i].key)) = 1

\* C18: an entry that an external write has left with a system-value kind
\* and a direct value is resolved as a system value only: a dispatch makes at
\* most one push for its name and never pushes the direct value, also when
\* the kind has no case or is skipped (CameraParameters without a camera).
C18_BothFieldsSystemValueOnly ==
    /\ previous.done => SystemValueOnly(previous)
    /\ last.done => SystemValueOnly(last)

\* C18 witness: a draw without a camera found "a" with CameraParameters and a
\* Vector3, pushed nothing for it and went on to push Color4 for "b"
C18_Witness ==
    /\ last.done
    /\ ~last.draw.activeCamera.present
    /\ last.ledger = <<[key |-> "a", entry |-> Entry("CameraParameters", Vector3)],
                       [key |-> "b", entry |-> Entry(NoSystemValue, Color4)]>>
    /\ last.visited = <<"a", "b">>
    /\ Len(last.pushes) = 1
    /\ last.pushes[1].key = "b"

FluidRendererIds == 1..Len(fluidRenderers)

\* the renderers that have been created and not disposed
LiveFluidRenderers == {id \in FluidRendererIds : ~fluidRenderers[id].disposed}

\* a step of one of the component's two hooks
Hook == GatherActiveCameraRenderTargets \/ AfterCameraDraw

\* C19: under any sequence of enableFluidRenderer, disableFluidRenderer,
\* component rebuild and component dispose (no use of the setter) the scene
\* has at most one fluid renderer, the renderer it refers to is not disposed,
\* a renderer is disposed at most once, enableFluidRenderer returns the
\* renderer the scene has without creating one, and a hook calls into a
\* renderer only while the scene has one.
C19_OneLiveFluidRenderer ==
    /\ [](~assigned =>
            /\ Cardinality(LiveFluidRenderers) <= 1
            /\ _fluidRenderer.tag = "ref" => _fluidRenderer.id \in LiveFluidRenderers
            /\ _fluidRenderer.tag # "ref" => LiveFluidRenderers = {}
            /\ \A id \in FluidRendererIds :
                  /\ ~fluidRenderers[id].disposedAgain
                  /\ ~fluidRenderers[id].late
                  /\ fluidRenderers[id].alone)
    /\ [][(EnableFluidRenderer /\ _fluidRenderer.tag = "ref") =>
            /\ enableResult' = _fluidRenderer
            /\ UNCHANGED <<_fluidRenderer, fluidRenderers>>]_vars
    /\ [][(EnableFluidRenderer /\ _fluidRenderer.tag # "ref") =>
            /\ Len(fluidRenderers') = Len(fluidRenderers) + 1
            /\ _fluidRenderer' = Reference(Len(fluidRenderers'))
            /\ enableResult' = _fluidRenderer']_vars
    /\ [][(Hook /\ ~assigned) =>
            \A id \in FluidRendererIds :
                fluidRenderers'[id] # fluidRenderers[id] =>
                    (_fluidRenderer = Reference(id) /\ id \in LiveFluidRenderers)]_vars
    /\ [][(Hook /\ _fluidRenderer.tag # "ref") => UNCHANGED fluidRenderers]_vars

\* C19 witness: a first renderer was used by both hooks and disposed once, a
\* second one is the scene's, was returned by enableFluidRenderer and has
\* been used by a hook
C19_Witness ==
    /\ ~assigned
    /\ Len(fluidRenderers) = 2
    /\ fluidRenderers[1].disposed
    /\ fluidRenderers[1].prepared
    /\ fluidRenderers[1].rendered
    /\ _fluidRenderer = Reference(2)
    /\ enableResult = Reference(2)
    /\ fluidRenderers[2].rendered
    /\ ~fluidRenderers[2].prepared

\* C20: rebuild() keeps the scene with or without a fluid renderer: with one,
\* that renderer is disposed first and another, newly created one is the
\* scene's afterwards; without one, nothing is created and nothing disposed.
C20_RebuildPreservesAssociation ==
    /\ [][(Rebuild /\ _fluidRenderer.tag = "ref") =>
            /\ _fluidRenderer'.tag = "ref"
            /\ _fluidRenderer' # _fluidRenderer
            /\ _fluidRenderer'.id = Len(fluidRenderers) + 1
            /\ Len(fluidRenderers') = Len(fluidRenderers) + 1
            /\ fluidRenderers'[_fluidRenderer.id].disposed
            /\ fluidRenderers'[_fluidRenderer.id].disposedAgain
                  = fluidRenderers[_fluidRenderer.id].disposed
            /\ ~fluidRenderers'[_fluidRenderer'.id].disposed
            /\ ~assigned => fluidRenderers'[_fluidRenderer'.id].alone
            /\ \A id \in FluidRendererIds \ {_fluidRenderer.id} :
                  fluidRenderers'[id] = fluidRenderers[id]]_vars
    /\ [][(Rebuild /\ _fluidRenderer.tag # "ref") =>
            UNCHANGED <<_fluidRenderer, fluidRenderers>>]_vars

\* C20 witness: enableFluidRenderer returned the first renderer, and a
\* rebuild() has disposed it and given the scene a second one
C20_Witness ==
    /\ ~assigned
    /\ component
    /\ enableResult = Reference(1)
    /\ Len(fluidRenderers) = 2
    /\ fluidRenderers[1].disposed
    /\ ~fluidRenderers[1].disposedAgain
    /\ ~fluidRenderers[2].disposed
    /\ _fluidRenderer = Reference(2)

====
